---- MODULE Spec2Model ----
(***************************************************************************)
(* Model of load/stream_load.py: the streaming request executor            *)
(* (send_streaming_request), the worker loop (worker), the aggregation     *)
(* (percentile, compute_metrics) and the control flow of main() from the   *)
(* creation of the shared state to the computation of the report.          *)
(*                                                                         *)
(* Time is a discrete clock `now`; one tick is one second of time.time().  *)
(* The clock is monotonic and advances while a thread is blocked in        *)
(* time.sleep or in a request; the other steps take no time.               *)
(***************************************************************************)
EXTENDS Integers, Sequences, FiniteSets, TLC

\* ---------------------------------------------------------------- bounds
NumWorkers == 2
MaxRequests == 2
MaxTime == 2
MaxDuration == 1
MaxLines == 2

\* ------------------------------------------------------ program constants
SuccessCode == 200

None == "None"

Workers == 0 .. (NumWorkers - 1)

VARIABLES
    mainpc,           \* position of main(): submit, sleep, sleeping, set, join, end, aggregate, done
    nsubmitted,       \* len(futures): workers submitted so far (loop variable i)
    njoined,          \* futures already waited for by the join loop
    duration,         \* args.duration
    sleep_until,      \* earliest instant at which time.sleep(args.duration) returns
    start_time,       \* main's start_time
    end_time,         \* main's end_time (-1 until taken)
    metrics,          \* the report of compute_metrics (None until computed)
    stop_event,       \* threading.Event
    request_counter,  \* request_counter[0]
    results,          \* the shared list of RequestResult
    pc,               \* position of each worker: idle, check, draw, call, inflight, append, done
    req_id,           \* each worker's local req_id (-1 before the first draw)
    result,           \* each worker's local result (NoResult before the first request)
    now,              \* time.time()
    sig_time,         \* history: instant at which stop_event was set (-1 before)
    sig_counter,      \* history: request_counter when stop_event was set (-1 before)
    sig_inflight,     \* history: request ids in flight when stop_event was set
    met_failure,      \* history: whether each worker's last request met a failure
    ex_pc,            \* executor run alone: post, lines, except, return
    ex_resp,          \* executor run alone: the server's response
    ex_pos,           \* executor run alone: lines consumed so far
    ex_st,            \* executor run alone: result and first_token_time
    pct_pc,           \* percentile run alone: call, returned
    pct_values,       \* percentile run alone: sorted_values
    pct_p,            \* percentile run alone: p
    pct_out,          \* percentile run alone: the value returned, times 100
    wr_pc,            \* write_json_output: open, dump, close, replace, print, done, raised
    files,            \* the content of the files at path and at path + ".tmp"
    prev_report,      \* history: the content at path when write_json_output started
    rd_seen           \* what a reader of path read last

vars == << mainpc, nsubmitted, njoined, duration, sleep_until, start_time, end_time,
           metrics, stop_event, request_counter, results, pc, req_id, result, now,
           sig_time, sig_counter, sig_inflight, met_failure, ex_pc, ex_resp, ex_pos, ex_st,
           pct_pc, pct_values, pct_p, pct_out, wr_pc, files, prev_report, rd_seen >>

\* The variables of main() other than its position, of the workers, the shared
\* ones, the history and those of the executor run alone.
mainlocals == << nsubmitted, njoined, duration, sleep_until, start_time, end_time, metrics >>
shared == << stop_event, request_counter, results >>
history == << sig_time, sig_counter, sig_inflight, met_failure >>
exvars == << ex_pc, ex_resp, ex_pos, ex_st >>
pctvars == << pct_pc, pct_values, pct_p, pct_out >>
filevars == << wr_pc, files, prev_report, rd_seen >>
sidevars == << pctvars, filevars >>

\* ------------------------------------------------------------ RequestResult

\* The record built at the start of send_streaming_request.
NewResult(id, t) ==
    [ request_id |-> id, start_time |-> t, ttft |-> 0, total_time |-> 0,
      tokens_received |-> 0, status_code |-> 0, error |-> "",
      stream_completed |-> FALSE, finish_reason |-> "" ]

\* A worker's local `result` before its first request.
NoResult == NewResult(-1, 0)

\* ------------------------------------------------------------- exceptions

Exc(cls, msg) == [ cls |-> cls, msg |-> msg ]
NoExc == Exc("none", "")

\* requests.exceptions: ConnectTimeout derives from ConnectionError and Timeout,
\* ReadTimeout from Timeout only, ChunkedEncodingError from neither.
IsConnectionError(e) == e.cls \in { "ConnectionError", "ConnectTimeout" }
IsChunkedEncodingError(e) == e.cls = "ChunkedEncodingError"
IsTimeout(e) == e.cls \in { "ConnectTimeout", "ReadTimeout" }

\* str(e)
Str(e) == e.msg

\* The except clauses of send_streaming_request, in their order.
ErrorOf(e) ==
    IF IsConnectionError(e) THEN "connection_reset"
    ELSE IF IsChunkedEncodingError(e) THEN "stream_interrupted"
    ELSE IF IsTimeout(e) THEN "timeout"
    ELSE Str(e)

\* ------------------------------------------------------------ stream lines

\* choices[0] of a payload.
Choice(isdict, text, finish) == [ isdict |-> isdict, text |-> text, finish |-> finish ]
NoChoice == Choice(FALSE, "", None)

\* The value of the "choices" key: kind is list, dict, number or string;
\* size is its length (its value for a number).
Choices(kind, size, first) == [ kind |-> kind, size |-> size, first |-> first ]

\* The value json.loads returns: a dict (with or without "choices") or not a dict.
Json(isdict, haschoices, choices) ==
    [ isdict |-> isdict, haschoices |-> haschoices, choices |-> choices ]
NoJson == Json(FALSE, FALSE, Choices("list", 0, NoChoice))

\* One line of resp.iter_lines(): empty or not, with the "data: " prefix or not,
\* and its payload: the sentinel, text json.loads rejects, or a JSON value.
Line(empty, data, payload, json) ==
    [ empty |-> empty, data |-> data, payload |-> payload, json |-> json ]

ObjLine(kind, size, first) ==
    Line(FALSE, TRUE, "json", Json(TRUE, TRUE, Choices(kind, size, first)))

BlankLine == Line(TRUE, FALSE, "none", NoJson)                 \* ""
CommentLine == Line(FALSE, FALSE, "none", NoJson)              \* ": keep-alive"
DoneLine == Line(FALSE, TRUE, "done", NoJson)                  \* data: [DONE]
BadJsonLine == Line(FALSE, TRUE, "invalid", NoJson)            \* data: {"choices": [
ArrayLine == Line(FALSE, TRUE, "json", Json(FALSE, FALSE, Choices("list", 0, NoChoice)))  \* data: [1]
NoChoicesLine == Line(FALSE, TRUE, "json", Json(TRUE, FALSE, Choices("list", 0, NoChoice)))  \* data: {"id": 1}
EmptyChoicesLine == ObjLine("list", 0, NoChoice)               \* data: {"choices": []}
DictChoicesLine == ObjLine("dict", 1, NoChoice)                \* data: {"choices": {"a": 1}}
NumberChoicesLine == ObjLine("number", 5, NoChoice)            \* data: {"choices": 5}
StringChoicesLine == ObjLine("string", 3, NoChoice)            \* data: {"choices": "abc"}
ScalarChoiceLine == ObjLine("list", 1, NoChoice)               \* data: {"choices": [1]}
TokenLine == ObjLine("list", 1, Choice(TRUE, "tok", None))     \* text "tok", finish_reason null
EmptyTextLine == ObjLine("list", 1, Choice(TRUE, "", None))    \* text "", finish_reason null
FinishLine == ObjLine("list", 1, Choice(TRUE, "", "stop"))     \* text "", finish_reason "stop"
TokenFinishLine == ObjLine("list", 1, Choice(TRUE, "tok", "length"))

LineKinds ==
    { BlankLine, CommentLine, DoneLine, BadJsonLine, ArrayLine, NoChoicesLine,
      EmptyChoicesLine, DictChoicesLine, NumberChoicesLine, StringChoicesLine,
      ScalarChoiceLine,
      TokenLine, EmptyTextLine, FinishLine, TokenFinishLine }

\* data.get("choices", [{}])
GetChoices(data) ==
    IF data.haschoices THEN data.choices
    ELSE Choices("list", 1, Choice(TRUE, "", None))

\* Truth value of `choices`: non-empty container, non-zero number.
Truthy(c) == c.size > 0

\* choices[0]: the first element of a list, the first character of a string.
First(c) == IF c.kind = "string" THEN Choice(FALSE, "", None) ELSE c.first

\* The exception the body of the inner try raises on a data line, "none" if it
\* raises nothing: json.loads, data.get, choices[0], choices[0].get.
BodyExc(line) ==
    IF line.payload = "invalid" THEN "JSONDecodeError"
    ELSE IF ~line.json.isdict THEN "AttributeError"
    ELSE LET c == GetChoices(line.json) IN
         IF ~Truthy(c) THEN "none"
         ELSE IF c.kind = "dict" THEN "KeyError"
         ELSE IF c.kind = "number" THEN "TypeError"
         ELSE IF ~First(c).isdict THEN "AttributeError"
         ELSE "none"

\* except (json.JSONDecodeError, IndexError, KeyError): pass
Caught(cls) == cls \in { "JSONDecodeError", "IndexError", "KeyError" }

\* text and finish of a data line whose try body raises nothing.
TextOf(line) ==
    LET c == GetChoices(line.json) IN IF Truthy(c) THEN First(c).text ELSE ""
FinishOf(line) ==
    LET c == GetChoices(line.json) IN IF Truthy(c) THEN First(c).finish ELSE None

\* State of the parsing loop: the result so far, first_token_time (-1 for None),
\* how the last line left the loop body (next, break, raise) and the exception.
ParseState(r, ftt, ctl, exc) == [ result |-> r, ftt |-> ftt, ctl |-> ctl, exc |-> exc ]

\* Account with first_token_time taken on the first parsed payload, whether or
\* not it carries a text.
AccountTimingAnyPayload(st, text, finish, t) ==
    LET r0 == st.result
        first == st.ftt = -1
        r1 == [ r0 EXCEPT !.tokens_received = IF text # "" THEN @ + 1 ELSE @,
                          !.ttft = IF first THEN t - r0.start_time ELSE @ ]
        r2 == IF finish # None
              THEN [ r1 EXCEPT !.finish_reason = finish, !.stream_completed = TRUE ]
              ELSE r1
    IN ParseState(r2, IF first THEN t ELSE st.ftt, "next", NoExc)

\* The effect of `if text:` and `if finish is not None:` at instant t.
Account(st, text, finish, t) ==
    LET r0 == st.result
        first == text # "" /\ st.ftt = -1
        r1 == IF text # ""
              THEN [ r0 EXCEPT !.tokens_received = @ + 1,
                               !.ttft = IF first THEN t - r0.start_time ELSE @ ]
              ELSE r0
        r2 == IF finish # None
              THEN [ r1 EXCEPT !.finish_reason = finish, !.stream_completed = TRUE ]
              ELSE r1
    IN ParseState(r2, IF first THEN t ELSE st.ftt, "next", NoExc)

\* One iteration of `for line in resp.iter_lines(...)` at instant t.
ProcessLine(st, line, t) ==
    IF line.empty \/ ~line.data
    THEN ParseState(st.result, st.ftt, "next", NoExc)
    ELSE IF line.payload = "done"
    THEN ParseState([ st.result EXCEPT !.stream_completed = TRUE ], st.ftt, "break", NoExc)
    ELSE LET x == BodyExc(line) IN
         IF x = "none" THEN Account(st, TextOf(line), FinishOf(line), t)
         ELSE IF Caught(x) THEN ParseState(st.result, st.ftt, "next", NoExc)
         ELSE ParseState(st.result, st.ftt, "raise", Exc(x, "bad payload"))

\* The whole loop over `lines` from position i on, every line read at instant t;
\* `tail` is the exception iter_lines raises after the last line (NoExc: the
\* stream ends).
RECURSIVE RunLines(_, _, _, _, _)
RunLines(st, lines, i, tail, t) ==
    IF i > Len(lines)
    THEN IF tail = NoExc THEN st ELSE ParseState(st.result, st.ftt, "raise", tail)
    ELSE LET nx == ProcessLine(st, lines[i], t) IN
         IF nx.ctl = "next" THEN RunLines(nx, lines, i + 1, tail, t) ELSE nx

\* "HTTP <code>"
HttpError(code) == "HTTP " \o ToString(code)

\* What the server does with one request: `pre` is the exception session.post
\* raises (NoExc: a status is received), then the status, the lines of the body
\* and the exception that ends the body.
Response(pre, status, lines, tail) ==
    [ pre |-> pre, status |-> status, lines |-> lines, tail |-> tail ]

\* Post without the early return on a status other than 200: the error is set
\* and the body is read all the same.
PostReadingBody(r, resp) ==
    IF resp.pre # NoExc THEN ParseState(r, -1, "raise", resp.pre)
    ELSE IF resp.status # SuccessCode
    THEN ParseState([ r EXCEPT !.status_code = resp.status, !.error = HttpError(resp.status) ],
                    -1, "next", NoExc)
    ELSE ParseState([ r EXCEPT !.status_code = resp.status ], -1, "next", NoExc)

\* Post that returns on a status other than 200 without setting the error.
PostSilentStatus(r, resp) ==
    IF resp.pre # NoExc THEN ParseState(r, -1, "raise", resp.pre)
    ELSE IF resp.status # SuccessCode
    THEN ParseState([ r EXCEPT !.status_code = resp.status ], -1, "break", NoExc)
    ELSE ParseState([ r EXCEPT !.status_code = resp.status ], -1, "next", NoExc)

\* The try block of send_streaming_request up to the parsing loop.
Post(r, resp) ==
    IF resp.pre # NoExc THEN ParseState(r, -1, "raise", resp.pre)
    ELSE IF resp.status # SuccessCode
    THEN ParseState([ r EXCEPT !.status_code = resp.status, !.error = HttpError(resp.status) ],
                    -1, "break", NoExc)
    ELSE ParseState([ r EXCEPT !.status_code = resp.status ], -1, "next", NoExc)

\* Finish with the counts of the stream dropped when an exception was caught.
FinishResettingCounts(st, t) ==
    LET r == IF st.ctl = "raise"
             THEN [ st.result EXCEPT !.error = ErrorOf(st.exc), !.tokens_received = 0,
                                     !.ttft = 0 ]
             ELSE st.result
    IN [ r EXCEPT !.total_time = t - r.start_time ]

\* The except clauses and the last two lines of send_streaming_request.
Finish(st, t) ==
    LET r == IF st.ctl = "raise" THEN [ st.result EXCEPT !.error = ErrorOf(st.exc) ]
             ELSE st.result
    IN [ r EXCEPT !.total_time = t - r.start_time ]

\* send_streaming_request for request `id` issued at t0, every line read at tl,
\* returning at t1.
SendStreamingRequest(resp, id, t0, tl, t1) ==
    LET p == Post(NewResult(id, t0), resp) IN
    IF p.ctl = "next" THEN Finish(RunLines(p, resp.lines, 1, resp.tail, tl), t1)
    ELSE Finish(p, t1)

\* ------------------------------------------------------------ report files

\* The temporary path taken to be the output path itself: the report is
\* written in place.
InPlace(path) == path

\* args.output and the temporary path write_json_output derives from it.
OutPath == "report.json"
TmpPath(path) == path \o ".tmp"

\* The content of a file: which report it holds ("none": no file) and how many
\* of its ReportChunks pieces have been written.
ReportChunks == 3
Content(report, written) == [ report |-> report, written |-> written ]
Absent == Content("none", 0)

\* ------------------------------------------------------------- aggregation

\* Division rounded down.
FloorDiv(n, d) == n \div d

\* Division rounded to the nearest integer, ties to even: round() on n/d, d > 0.
RoundDiv(n, d) ==
    LET q == n \div d
        r == n % d
    IN IF 2 * r < d THEN q
       ELSE IF 2 * r > d THEN q + 1
       ELSE IF q % 2 = 0 THEN q ELSE q + 1

\* sorted(): insertion of x into a sorted sequence.
RECURSIVE Insert(_, _)
Insert(s, x) ==
    IF s = << >> THEN << x >>
    ELSE IF x <= Head(s) THEN << x >> \o s
    ELSE << Head(s) >> \o Insert(Tail(s), x)

RECURSIVE Sorted(_)
Sorted(s) == IF s = << >> THEN << >> ELSE Insert(Sorted(Tail(s)), Head(s))

\* The order statistic at rank int(k), times 100, without interpolation.
PercentileNearestRank(sorted_values, p) ==
    IF sorted_values = << >> THEN 0
    ELSE 100 * sorted_values[(((Len(sorted_values) - 1) * p) \div 100) + 1]

\* percentile(sorted_values, p) times 100, for an integer p: with K = 100 * k,
\* f = int(k), c = min(f + 1, len - 1), d = k - f (indices from 0 in the
\* source, from 1 here).
Percentile(sorted_values, p) ==
    IF sorted_values = << >> THEN 0
    ELSE LET K == (Len(sorted_values) - 1) * p
             f == K \div 100
             c == IF f + 1 < Len(sorted_values) - 1 THEN f + 1 ELSE Len(sorted_values) - 1
         IN 100 * sorted_values[f + 1]
            + (K - 100 * f) * (sorted_values[c + 1] - sorted_values[f + 1])

\* sum() of a sequence of numbers.
RECURSIVE Sum(_)
Sum(s) == IF s = << >> THEN 0 ELSE Head(s) + Sum(Tail(s))

\* compute_metrics. Rates and percentiles are in 1/10000 (round(x, 4)),
\* tokens_per_sec in 1/10 (round(x, 1)), duration_actual in seconds.
ComputeMetrics(rs, t0, t1) ==
    LET total == Len(rs)
        successful == Sum([ i \in 1 .. total |-> IF rs[i].error = "" THEN 1 ELSE 0 ])
        completed_streams == Sum([ i \in 1 .. total |-> IF rs[i].stream_completed THEN 1 ELSE 0 ])
        total_tokens == Sum([ i \in 1 .. total |-> rs[i].tokens_received ])
        failed == total - successful
        codes == { rs[i].status_code : i \in 1 .. total }
        ttft_values == Sorted(SelectSeq([ i \in 1 .. total |-> rs[i].ttft ], LAMBDA x : x > 0))
        dur == t1 - t0
    IN IF total = 0
       THEN [ total_requests |-> 0, successful |-> 0, failed |-> 0, error_rate |-> 0,
              status_code_counts |-> [ c \in {} |-> 0 ], ttft_p50 |-> 0, ttft_p95 |-> 0,
              tokens_per_sec |-> 0, stream_completion_rate |-> 0,
              duration_actual |-> t1 - t0 ]
       ELSE [ total_requests |-> total, successful |-> successful, failed |-> failed,
              error_rate |-> RoundDiv(10000 * failed, total),
              status_code_counts |->
                  [ c \in { ToString(k) : k \in codes } |->
                      Cardinality({ i \in 1 .. total : ToString(rs[i].status_code) = c }) ],
              ttft_p50 |-> 100 * Percentile(ttft_values, 50),
              ttft_p95 |-> 100 * Percentile(ttft_values, 95),
              tokens_per_sec |-> IF dur > 0 THEN RoundDiv(10 * total_tokens, dur) ELSE 0,
              stream_completion_rate |-> RoundDiv(10000 * completed_streams, total),
              duration_actual |-> dur ]

\* The report before compute_metrics has run.
NoMetrics == ComputeMetrics(<< >>, 0, -1)

\* ------------------------------------------------------------------ worker

\* What the server may do with a request of the load run: a complete stream, a
\* stream cut after its first token, an exception whose str() is empty before
\* any status. The body is read when the request completes.
SpecResponses ==
    { Response(NoExc, SuccessCode, << TokenLine, DoneLine >>, NoExc),
      Response(NoExc, SuccessCode, << TokenLine >>, Exc("ChunkedEncodingError", "broken")),
      Response(Exc("MemoryError", ""), 0, << >>, NoExc) }

\* Whether the request met a failure: no status, a status other than 200, or an
\* exception while the body was read.
Failure(resp) ==
    LET p == Post(NewResult(0, 0), resp) IN
    \/ resp.pre # NoExc
    \/ resp.status # SuccessCode
    \/ RunLines(p, resp.lines, 1, resp.tail, 0).ctl = "raise"

\* Workers between the check of stop_event and the increment of the counter.
Drawing == { v \in Workers : pc[v] = "draw" }

\* The test of stop_event made at the bottom of the loop: a worker that has not
\* run a request yet runs one, whatever the signal.
CheckAtBottom(w) ==
    /\ pc[w] = "check"
    /\ IF stop_event /\ req_id[w] # -1
       THEN pc' = [ pc EXCEPT ![w] = "done" ]
       ELSE /\ request_counter + Cardinality(Drawing) < MaxRequests
            /\ pc' = [ pc EXCEPT ![w] = "draw" ]
    /\ UNCHANGED << mainpc, mainlocals, shared, req_id, result, now, history, exvars, sidevars >>

\* A loop without its exit: a worker that finds stop_event set waits.
CheckWithoutExit(w) ==
    /\ pc[w] = "check"
    /\ ~stop_event
    /\ request_counter + Cardinality(Drawing) < MaxRequests
    /\ pc' = [ pc EXCEPT ![w] = "draw" ]
    /\ UNCHANGED << mainpc, mainlocals, shared, req_id, result, now, history, exvars, sidevars >>

\* A loop that does not look at stop_event: the worker goes on until the
\* counter has reached MaxRequests.
CheckIgnoringSignal(w) ==
    /\ pc[w] = "check"
    /\ IF request_counter + Cardinality(Drawing) < MaxRequests
       THEN pc' = [ pc EXCEPT ![w] = "draw" ]
       ELSE /\ stop_event
            /\ pc' = [ pc EXCEPT ![w] = "done" ]
    /\ UNCHANGED << mainpc, mainlocals, shared, req_id, result, now, history, exvars, sidevars >>

\* `while not stop_event.is_set()` and, when set, session.close() and return.
\* A worker does not enter an iteration that would take the counter past
\* MaxRequests.
Check(w) ==
    /\ pc[w] = "check"
    /\ IF stop_event
       THEN pc' = [ pc EXCEPT ![w] = "done" ]
       ELSE /\ request_counter + Cardinality(Drawing) < MaxRequests
            /\ pc' = [ pc EXCEPT ![w] = "draw" ]
    /\ UNCHANGED << mainpc, mainlocals, shared, req_id, result, now, history, exvars, sidevars >>

\* Draw without counter_lock: the increment is lost when another worker is
\* between its read and its write.
DrawUnlocked(w) ==
    /\ pc[w] = "draw"
    /\ req_id' = [ req_id EXCEPT ![w] = request_counter ]
    /\ request_counter' = IF Drawing \ { w } # {} THEN request_counter
                           ELSE request_counter + 1
    /\ pc' = [ pc EXCEPT ![w] = "call" ]
    /\ UNCHANGED << mainpc, mainlocals, stop_event, results, result, now, history, exvars,
                    sidevars >>

\* Draw with the counter incremented before it is read: the ids start at 1.
DrawAfterIncrement(w) ==
    /\ pc[w] = "draw"
    /\ req_id' = [ req_id EXCEPT ![w] = request_counter + 1 ]
    /\ request_counter' = request_counter + 1
    /\ pc' = [ pc EXCEPT ![w] = "call" ]
    /\ UNCHANGED << mainpc, mainlocals, stop_event, results, result, now, history, exvars,
                    sidevars >>

\* random.choice(prompts) and the block under counter_lock.
Draw(w) ==
    /\ pc[w] = "draw"
    /\ req_id' = [ req_id EXCEPT ![w] = request_counter ]
    /\ request_counter' = request_counter + 1
    /\ pc' = [ pc EXCEPT ![w] = "call" ]
    /\ UNCHANGED << mainpc, mainlocals, stop_event, results, result, now, history, exvars,
                    sidevars >>

\* The call of send_streaming_request: the result record is built with
\* start_time = time.time() and the request is sent.
Call(w) ==
    /\ pc[w] = "call"
    /\ result' = [ result EXCEPT ![w] = NewResult(req_id[w], now) ]
    /\ pc' = [ pc EXCEPT ![w] = "inflight" ]
    /\ UNCHANGED << mainpc, mainlocals, shared, req_id, now, history, exvars, sidevars >>

\* A request that is dropped, and the worker with it, when stop_event is set
\* while it is in flight.
CompleteUnlessStopped(w) ==
    /\ pc[w] = "inflight"
    /\ IF stop_event
       THEN /\ pc' = [ pc EXCEPT ![w] = "done" ]
            /\ UNCHANGED << result, met_failure >>
       ELSE /\ \E resp \in SpecResponses :
                  /\ result' = [ result EXCEPT ![w] =
                         SendStreamingRequest(resp, req_id[w], result[w].start_time, now, now) ]
                  /\ met_failure' = [ met_failure EXCEPT ![w] = Failure(resp) ]
            /\ pc' = [ pc EXCEPT ![w] = "append" ]
    /\ UNCHANGED << mainpc, mainlocals, shared, req_id, now, sig_time, sig_counter,
                    sig_inflight, exvars, sidevars >>

\* send_streaming_request returns: the request reached its terminal outcome.
Complete(w) ==
    /\ pc[w] = "inflight"
    /\ \E resp \in SpecResponses :
          /\ result' = [ result EXCEPT ![w] =
                 SendStreamingRequest(resp, req_id[w], result[w].start_time, now, now) ]
          /\ met_failure' = [ met_failure EXCEPT ![w] = Failure(resp) ]
    /\ pc' = [ pc EXCEPT ![w] = "append" ]
    /\ UNCHANGED << mainpc, mainlocals, shared, req_id, now, sig_time, sig_counter,
                    sig_inflight, exvars, sidevars >>

\* Append without results_lock: the append is lost when another worker appends
\* at the same time.
AppendUnlocked(w) ==
    /\ pc[w] = "append"
    /\ results' = IF \E v \in Workers \ { w } : pc[v] = "append" THEN results
                  ELSE Append(results, result[w])
    /\ pc' = [ pc EXCEPT ![w] = "check" ]
    /\ UNCHANGED << mainpc, mainlocals, stop_event, request_counter, req_id, result, now,
                    history, exvars, sidevars >>

\* The block under results_lock, then back to the top of the loop.
AppendResult(w) ==
    /\ pc[w] = "append"
    /\ results' = Append(results, result[w])
    /\ pc' = [ pc EXCEPT ![w] = "check" ]
    /\ UNCHANGED << mainpc, mainlocals, stop_event, request_counter, req_id, result, now,
                    history, exvars, sidevars >>

\* -------------------------------------------------------------------- main

\* executor.submit(worker, ...): the pool starts a thread that runs worker i.
Submit ==
    /\ mainpc = "submit"
    /\ pc' = [ pc EXCEPT ![nsubmitted] = "check" ]
    /\ nsubmitted' = nsubmitted + 1
    /\ mainpc' = IF nsubmitted + 1 = NumWorkers THEN "sleep" ELSE "submit"
    /\ UNCHANGED << njoined, duration, sleep_until, start_time, end_time, metrics,
                    shared, req_id, result, now, history, exvars, sidevars >>

\* time.sleep(args.duration) is entered.
SleepBegin ==
    /\ mainpc = "sleep"
    /\ sleep_until' = now + duration
    /\ mainpc' = "sleeping"
    /\ UNCHANGED << nsubmitted, njoined, duration, start_time, end_time, metrics,
                    shared, pc, req_id, result, now, history, exvars, sidevars >>

\* A sleep that may return before the duration has elapsed.
SleepEndEarly ==
    /\ mainpc = "sleeping"
    /\ mainpc' = "set"
    /\ UNCHANGED << mainlocals, shared, pc, req_id, result, now, history, exvars, sidevars >>

\* time.sleep returns, not before the duration has elapsed.
SleepEnd ==
    /\ mainpc = "sleeping"
    /\ now >= sleep_until
    /\ mainpc' = "set"
    /\ UNCHANGED << mainlocals, shared, pc, req_id, result, now, history, exvars, sidevars >>

\* stop_event.set()
SetStop ==
    /\ mainpc = "set"
    /\ stop_event' = TRUE
    /\ sig_time' = now
    /\ sig_counter' = request_counter
    /\ sig_inflight' = { req_id[w] : w \in { v \in Workers : pc[v] = "inflight" } }
    /\ mainpc' = "join"
    /\ UNCHANGED << mainlocals, request_counter, results, pc, req_id, result, now,
                    met_failure, exvars, sidevars >>

\* A join that does not wait for the worker to return.
JoinWithoutWait ==
    /\ mainpc = "join"
    /\ njoined' = njoined + 1
    /\ mainpc' = IF njoined + 1 = NumWorkers THEN "end" ELSE "join"
    /\ UNCHANGED << nsubmitted, duration, sleep_until, start_time, end_time, metrics,
                    shared, pc, req_id, result, now, history, exvars, sidevars >>

\* fut.result() for the next future: returns once that worker has returned.
\* After the last one the with block is left (shutdown(wait=True)).
Join ==
    /\ mainpc = "join"
    /\ pc[njoined] = "done"
    /\ njoined' = njoined + 1
    /\ mainpc' = IF njoined + 1 = NumWorkers THEN "end" ELSE "join"
    /\ UNCHANGED << nsubmitted, duration, sleep_until, start_time, end_time, metrics,
                    shared, pc, req_id, result, now, history, exvars, sidevars >>

\* end_time taken as the instant of the signal.
TakeEndTimeAtSignal ==
    /\ mainpc = "end"
    /\ end_time' = sig_time
    /\ mainpc' = "aggregate"
    /\ UNCHANGED << nsubmitted, njoined, duration, sleep_until, start_time, metrics,
                    shared, pc, req_id, result, now, history, exvars, sidevars >>

\* end_time = time.time()
TakeEndTime ==
    /\ mainpc = "end"
    /\ end_time' = now
    /\ mainpc' = "aggregate"
    /\ UNCHANGED << nsubmitted, njoined, duration, sleep_until, start_time, metrics,
                    shared, pc, req_id, result, now, history, exvars, sidevars >>

\* metrics = compute_metrics(results, start_time, end_time)
Aggregate ==
    /\ mainpc = "aggregate"
    /\ metrics' = ComputeMetrics(results, start_time, end_time)
    /\ mainpc' = "done"
    /\ UNCHANGED << nsubmitted, njoined, duration, sleep_until, start_time, end_time,
                    shared, pc, req_id, result, now, history, exvars, sidevars >>

\* The clock advances by one second, up to MaxTime, while main() sleeps or a
\* request is in flight: the time the run takes is the time its threads spend
\* in time.sleep and in send_streaming_request.
Tick ==
    /\ mainpc = "sleeping" \/ \E w \in Workers : pc[w] = "inflight"
    /\ now < MaxTime
    /\ now' = now + 1
    /\ UNCHANGED << mainpc, mainlocals, shared, pc, req_id, result, history, exvars, sidevars >>

\* The state of main() after start_time = time.time(): the shared state is
\* created, no worker is submitted yet.
\* percentile and write_json_output are not running.
PctOff ==
    /\ pct_pc = "off"
    /\ pct_values = << >>
    /\ pct_p = 0
    /\ pct_out = 0

FileOff ==
    /\ wr_pc = "off"
    /\ files = [ f \in { OutPath, TmpPath(OutPath) } |-> Absent ]
    /\ prev_report = Absent
    /\ rd_seen = Absent

Init ==
    /\ mainpc = "submit"
    /\ nsubmitted = 0
    /\ njoined = 0
    /\ duration \in 0 .. MaxDuration
    /\ sleep_until = -1
    /\ now = 0
    /\ start_time = 0
    /\ end_time = -1
    /\ metrics = NoMetrics
    /\ stop_event = FALSE
    /\ request_counter = 0
    /\ results = << >>
    /\ pc = [ w \in Workers |-> "idle" ]
    /\ req_id = [ w \in Workers |-> -1 ]
    /\ result = [ w \in Workers |-> NoResult ]
    /\ sig_time = -1
    /\ sig_counter = -1
    /\ sig_inflight = {}
    /\ met_failure = [ w \in Workers |-> FALSE ]
    /\ ex_pc = "off"
    /\ ex_resp = Response(NoExc, 0, << >>, NoExc)
    /\ ex_pos = 0
    /\ ex_st = ParseState(NoResult, -1, "next", NoExc)
    /\ PctOff
    /\ FileOff

WorkerStep(w) == Check(w) \/ Draw(w) \/ Call(w) \/ Complete(w) \/ AppendResult(w)

MainStep == Submit \/ SleepBegin \/ SleepEnd \/ SetStop \/ Join \/ TakeEndTime \/ Aggregate

Next == MainStep \/ (\E w \in Workers : WorkerStep(w)) \/ Tick

Spec == Init /\ [][Next]_vars

\* ------------------------------------------------- executor, line by line

\* All sequences of at most n lines.
RECURSIVE LineSeqs(_)
LineSeqs(n) ==
    IF n = 0 THEN { << >> }
    ELSE LET shorter == LineSeqs(n - 1) IN
         shorter \cup { Append(s, l) : s \in shorter, l \in LineKinds }

\* What the server may do with the request of the executor run alone.
ExecResponses ==
    { Response(e, 0, << >>, NoExc) :
        e \in { Exc("ConnectionError", "refused"), Exc("ConnectTimeout", "timed out"),
                Exc("ReadTimeout", "timed out"), Exc("InvalidURL", "no host"),
                Exc("MemoryError", "") } }
    \cup { Response(NoExc, 503, ls, NoExc) : ls \in { << >>, << TokenLine, DoneLine >> } }
    \cup { Response(NoExc, SuccessCode, ls, e) :
             ls \in LineSeqs(MaxLines),
             e \in { NoExc, Exc("ChunkedEncodingError", "broken"), Exc("MemoryError", "") } }

\* resp = session.post(...), result.status_code = resp.status_code and the test
\* of the status.
ExecPost ==
    /\ ex_pc = "post"
    /\ ex_st' = Post(ex_st.result, ex_resp)
    /\ ex_pc' = IF ex_st'.ctl = "next" THEN "lines" ELSE "finish"
    /\ UNCHANGED << mainpc, mainlocals, shared, pc, req_id, result, now, history,
                    ex_resp, ex_pos, sidevars >>

\* One iteration of the loop over resp.iter_lines().
ExecLine ==
    /\ ex_pc = "lines"
    /\ ex_pos < Len(ex_resp.lines)
    /\ ex_st' = ProcessLine(ex_st, ex_resp.lines[ex_pos + 1], now)
    /\ ex_pos' = ex_pos + 1
    /\ ex_pc' = IF ex_st'.ctl = "next" THEN "lines" ELSE "finish"
    /\ UNCHANGED << mainpc, mainlocals, shared, pc, req_id, result, now, history, ex_resp,
                    sidevars >>

\* iter_lines() has no further line: the body ends, or the transport fails.
ExecEnd ==
    /\ ex_pc = "lines"
    /\ ex_pos = Len(ex_resp.lines)
    /\ ex_st' = IF ex_resp.tail = NoExc THEN ex_st
                ELSE ParseState(ex_st.result, ex_st.ftt, "raise", ex_resp.tail)
    /\ ex_pc' = "finish"
    /\ UNCHANGED << mainpc, mainlocals, shared, pc, req_id, result, now, history,
                    ex_resp, ex_pos, sidevars >>

\* The except clause that matches, result.total_time and return.
ExecFinish ==
    /\ ex_pc = "finish"
    /\ ex_st' = [ ex_st EXCEPT !.result = Finish(ex_st, now) ]
    /\ ex_pc' = "returned"
    /\ UNCHANGED << mainpc, mainlocals, shared, pc, req_id, result, now, history,
                    ex_resp, ex_pos, sidevars >>

\* The clock advances while the request runs.
ExecTick ==
    /\ ex_pc # "returned"
    /\ now < MaxTime
    /\ now' = now + 1
    /\ UNCHANGED << mainpc, mainlocals, shared, pc, req_id, result, history, exvars, sidevars >>

\* send_streaming_request called with request_id 0 at instant 0, its result
\* record built, before session.post.
ExecInit ==
    /\ mainpc = "off"
    /\ nsubmitted = 0
    /\ njoined = 0
    /\ duration = 0
    /\ sleep_until = -1
    /\ now = 0
    /\ start_time = 0
    /\ end_time = -1
    /\ metrics = NoMetrics
    /\ stop_event = FALSE
    /\ request_counter = 0
    /\ results = << >>
    /\ pc = [ w \in Workers |-> "idle" ]
    /\ req_id = [ w \in Workers |-> -1 ]
    /\ result = [ w \in Workers |-> NoResult ]
    /\ sig_time = -1
    /\ sig_counter = -1
    /\ sig_inflight = {}
    /\ met_failure = [ w \in Workers |-> FALSE ]
    /\ ex_pc = "post"
    /\ ex_resp \in ExecResponses
    /\ ex_pos = 0
    /\ ex_st = ParseState(NewResult(0, 0), -1, "next", NoExc)
    /\ PctOff
    /\ FileOff

ExecNext == ExecPost \/ ExecLine \/ ExecEnd \/ ExecFinish \/ ExecTick

ExecSpec == ExecInit /\ [][ExecNext]_vars

\* ------------------------------------------------ compute_metrics on its own

\* Longest outcome collection handed to compute_metrics.
MaxOutcomes == 3

\* All sequences of at most n elements of S.
RECURSIVE SeqsUpTo(_, _)
SeqsUpTo(S, n) ==
    IF n = 0 THEN { << >> }
    ELSE LET shorter == SeqsUpTo(S, n - 1) IN
         shorter \cup { Append(s, x) : s \in shorter, x \in S }

\* The outcomes of a collection: what send_streaming_request returns, at
\* instant t, for a complete stream, a stream cut after its first token, an
\* empty stream, a 503 and a refused connection.
MetricsOutcomes ==
    { SendStreamingRequest(resp, 0, 0, t, t) :
        t \in 1 .. MaxTime,
        resp \in { Response(NoExc, SuccessCode, << TokenLine, DoneLine >>, NoExc),
                   Response(NoExc, SuccessCode, << TokenLine >>,
                            Exc("ChunkedEncodingError", "broken")),
                   Response(NoExc, SuccessCode, << >>, NoExc),
                   Response(NoExc, 503, << >>, NoExc),
                   Response(Exc("ConnectionError", "refused"), 0, << >>, NoExc) } }

\* The outcomes of s numbered in the order of the collection.
Numbered(s) == [ i \in 1 .. Len(s) |-> [ s[i] EXCEPT !.request_id = i - 1 ] ]

\* main() at line 377, with any collection and any start and end time.
MetricsInit ==
    /\ mainpc = "aggregate"
    /\ nsubmitted = NumWorkers
    /\ njoined = NumWorkers
    /\ duration = 0
    /\ sleep_until = 0
    /\ now = MaxTime
    /\ start_time \in 0 .. MaxTime
    /\ end_time \in 0 .. MaxTime
    /\ metrics = NoMetrics
    /\ stop_event = TRUE
    /\ results \in { Numbered(s) : s \in SeqsUpTo(MetricsOutcomes, MaxOutcomes) }
    /\ request_counter = Len(results)
    /\ pc = [ w \in Workers |-> "done" ]
    /\ req_id = [ w \in Workers |-> -1 ]
    /\ result = [ w \in Workers |-> NoResult ]
    /\ sig_time = 0
    /\ sig_counter = 0
    /\ sig_inflight = {}
    /\ met_failure = [ w \in Workers |-> FALSE ]
    /\ ex_pc = "off"
    /\ ex_resp = Response(NoExc, 0, << >>, NoExc)
    /\ ex_pos = 0
    /\ ex_st = ParseState(NoResult, -1, "next", NoExc)
    /\ PctOff
    /\ FileOff

MetricsSpec == MetricsInit /\ [][Aggregate]_vars

\* ----------------------------------------------------- percentile on its own

\* Longest sequence handed to percentile; its values are multiples of ten up
\* to ten times that length.
MaxSamples == 4

Samples == { 10 * i : i \in 0 .. MaxSamples }

\* percentile is called with a sorted sequence and a p in [0, 100].
PctInit ==
    /\ mainpc = "off"
    /\ nsubmitted = 0
    /\ njoined = 0
    /\ duration = 0
    /\ sleep_until = -1
    /\ now = 0
    /\ start_time = 0
    /\ end_time = -1
    /\ metrics = NoMetrics
    /\ stop_event = FALSE
    /\ request_counter = 0
    /\ results = << >>
    /\ pc = [ w \in Workers |-> "idle" ]
    /\ req_id = [ w \in Workers |-> -1 ]
    /\ result = [ w \in Workers |-> NoResult ]
    /\ sig_time = -1
    /\ sig_counter = -1
    /\ sig_inflight = {}
    /\ met_failure = [ w \in Workers |-> FALSE ]
    /\ ex_pc = "off"
    /\ ex_resp = Response(NoExc, 0, << >>, NoExc)
    /\ ex_pos = 0
    /\ ex_st = ParseState(NoResult, -1, "next", NoExc)
    /\ pct_pc = "call"
    /\ pct_values \in { Sorted(s) : s \in SeqsUpTo(Samples, MaxSamples) }
    /\ pct_p \in 0 .. 100
    /\ pct_out = 0
    /\ FileOff

\* percentile(sorted_values, p) returns.
PctCall ==
    /\ pct_pc = "call"
    /\ pct_out' = Percentile(pct_values, pct_p)
    /\ pct_pc' = "returned"
    /\ UNCHANGED << mainpc, mainlocals, shared, pc, req_id, result, now, history, exvars,
                    pct_values, pct_p, filevars >>

PctSpec == PctInit /\ [][PctCall]_vars

\* ------------------------------------------- write_json_output, step by step

\* A complete previous report, and the complete report of this run.
OldReport == Content("old", ReportChunks)
NewReport == Content("new", ReportChunks)

\* main() at line 381: the report is computed, the output path holds no file
\* or a previous report, the temporary path no file or what an earlier run
\* left there. A reader has read the output path.
WrInit ==
    /\ mainpc = "done"
    /\ nsubmitted = NumWorkers
    /\ njoined = NumWorkers
    /\ duration = 0
    /\ sleep_until = 0
    /\ now = MaxTime
    /\ start_time = 0
    /\ end_time = MaxTime
    /\ results \in { Numbered(s) : s \in SeqsUpTo(MetricsOutcomes, 1) }
    /\ metrics = ComputeMetrics(results, start_time, end_time)
    /\ stop_event = TRUE
    /\ request_counter = Len(results)
    /\ pc = [ w \in Workers |-> "done" ]
    /\ req_id = [ w \in Workers |-> -1 ]
    /\ result = [ w \in Workers |-> NoResult ]
    /\ sig_time = 0
    /\ sig_counter = 0
    /\ sig_inflight = {}
    /\ met_failure = [ w \in Workers |-> FALSE ]
    /\ ex_pc = "off"
    /\ ex_resp = Response(NoExc, 0, << >>, NoExc)
    /\ ex_pos = 0
    /\ ex_st = ParseState(NoResult, -1, "next", NoExc)
    /\ PctOff
    /\ wr_pc = "open"
    /\ files \in { f \in [ { OutPath, TmpPath(OutPath) } ->
                             { Absent } \cup { Content("old", k) : k \in 0 .. ReportChunks } ] :
                     f[OutPath] \in { Absent, OldReport } }
    /\ prev_report = files[OutPath]
    /\ rd_seen = files[OutPath]

\* with open(tmp_path, "w") as f: the temporary file is created or truncated.
WrOpen ==
    /\ wr_pc = "open"
    /\ files' = [ files EXCEPT ![TmpPath(OutPath)] = Content("new", 0) ]
    /\ wr_pc' = "dump"
    /\ UNCHANGED << mainpc, mainlocals, shared, pc, req_id, result, now, history, exvars,
                    pctvars, prev_report, rd_seen >>

\* json.dump(output, f, indent=2): one more piece of the report reaches the
\* temporary file.
WrDump ==
    /\ wr_pc = "dump"
    /\ files[TmpPath(OutPath)].written < ReportChunks
    /\ files' = [ files EXCEPT ![TmpPath(OutPath)].written = @ + 1 ]
    /\ UNCHANGED << mainpc, mainlocals, shared, pc, req_id, result, now, history, exvars,
                    pctvars, wr_pc, prev_report, rd_seen >>

\* The with block ends: the file is closed.
WrClose ==
    /\ wr_pc = "dump"
    /\ files[TmpPath(OutPath)].written = ReportChunks
    /\ wr_pc' = "replace"
    /\ UNCHANGED << mainpc, mainlocals, shared, pc, req_id, result, now, history, exvars,
                    pctvars, files, prev_report, rd_seen >>

\* os.replace(tmp_path, path): the rename, in one step.
WrReplace ==
    /\ wr_pc = "replace"
    /\ files' = [ files EXCEPT ![TmpPath(OutPath)] = Absent,
                               ![OutPath] = files[TmpPath(OutPath)] ]
    /\ wr_pc' = "print"
    /\ UNCHANGED << mainpc, mainlocals, shared, pc, req_id, result, now, history, exvars,
                    pctvars, prev_report, rd_seen >>

\* print(...) and return.
WrPrint ==
    /\ wr_pc = "print"
    /\ wr_pc' = "done"
    /\ UNCHANGED << mainpc, mainlocals, shared, pc, req_id, result, now, history, exvars,
                    pctvars, files, prev_report, rd_seen >>

\* open, a write of json.dump, the close or os.replace raises: the exception
\* leaves write_json_output, the files stay as they are at that point.
WrRaise ==
    /\ wr_pc \in { "open", "dump", "replace" }
    /\ wr_pc' = "raised"
    /\ UNCHANGED << mainpc, mainlocals, shared, pc, req_id, result, now, history, exvars,
                    pctvars, files, prev_report, rd_seen >>

\* Another process reads the file at the output path.
RdRead ==
    /\ wr_pc # "off"
    /\ rd_seen' = files[OutPath]
    /\ rd_seen' # rd_seen
    /\ UNCHANGED << mainpc, mainlocals, shared, pc, req_id, result, now, history, exvars,
                    pctvars, wr_pc, files, prev_report >>

WrNext == WrOpen \/ WrDump \/ WrClose \/ WrReplace \/ WrPrint \/ WrRaise \/ RdRead

WrSpec == WrInit /\ [][WrNext]_vars

\* Fairness: every thread that can take a step eventually takes one, and a
\* request in flight eventually reaches its terminal outcome.
FairSpec ==
    /\ Spec
    /\ WF_vars(MainStep)
    /\ \A w \in Workers : WF_vars(WorkerStep(w))

\* ------------------------------------------------------------------ claims

\* The request ids of the outcomes in the collection.
ResultIds == { results[i].request_id : i \in 1 .. Len(results) }

\* Workers that hold a request id whose outcome is not in the collection yet.
Pending == { w \in Workers : pc[w] \in { "call", "inflight", "append" } }

\* main() is past the join of the workers.
Joined == mainpc \in { "end", "aggregate", "done" }

\* C1: no two requests are ever assigned the same request_id (two workers never
\* hold the same id, the id a worker is working on is in no outcome of the
\* collection, no two outcomes of the collection carry the same id), and once
\* all workers have joined the ids of the collection are as many as its length,
\* which is total_requests.
C1_UniqueRequestIds ==
    /\ \A v, w \in Pending : v # w => req_id[v] # req_id[w]
    /\ \A w \in Pending : req_id[w] \notin ResultIds
    /\ \A i, j \in 1 .. Len(results) :
          i # j => results[i].request_id # results[j].request_id
    /\ Joined => Cardinality(ResultIds) = Len(results)
    /\ mainpc = "done" => metrics.total_requests = Cardinality(ResultIds)

\* Both workers drew an id while the other was drawing or working, and the run
\* is over with both outcomes collected.
C1_Witness ==
    /\ mainpc = "done"
    /\ Len(results) >= 2
    /\ \A w \in Workers : req_id[w] # -1

\* C2: no append is lost: at any time the outcomes of the collection and the
\* requests being worked on are as many as the ids issued, and once all workers
\* have joined every id issued has exactly one outcome in the collection, so
\* the length of the collection is the final value of the counter.
C2_NoAppendLost ==
    /\ Len(results) + Cardinality(Pending) = request_counter
    /\ Joined =>
          /\ Len(results) = request_counter
          /\ \A id \in 0 .. (request_counter - 1) :
                Cardinality({ i \in 1 .. Len(results) : results[i].request_id = id }) = 1

\* The run is over, two ids were issued and the outcomes of two different
\* instants of completion are in the collection.
C2_Witness ==
    /\ Joined
    /\ request_counter = 2
    /\ Len(results) = 2
    /\ results[1].request_id = 1

\* C3: cancellation never interrupts a request in flight: a request in flight,
\* whether stop_event is set or not, leaves that state only with its terminal
\* outcome as the worker's result; the worker then leaves the append only with
\* that outcome added to the collection; and a worker that has returned has the
\* outcome of the last request it issued in the collection.
C3_InFlightNeverAborted ==
    [][ \A w \in Workers :
          /\ (pc[w] = "inflight" /\ pc'[w] # "inflight") =>
                /\ pc'[w] = "append"
                /\ result'[w].request_id = req_id[w]
                /\ result'[w].start_time = result[w].start_time
                /\ result'[w].total_time = now - result[w].start_time
          /\ (pc[w] = "append" /\ pc'[w] # "append") =>
                results' = Append(results, result[w])
          /\ (pc'[w] = "done" /\ req_id'[w] # -1) =>
                \E i \in 1 .. Len(results') :
                    /\ results'[i] = result'[w]
                    /\ results'[i].request_id = req_id'[w] ]_vars

\* A request that was in flight when the signal was raised is in the
\* collection and its worker has returned.
C3_Witness ==
    \E w \in Workers :
        /\ pc[w] = "done"
        /\ req_id[w] \in sig_inflight
        /\ req_id[w] \in ResultIds
        /\ result[w].start_time + result[w].total_time > sig_time

\* C4 as stated: once the signal has been raised no worker obtains a request id
\* and none invokes the executor.
C4_NoRequestStartedAfterSignal ==
    [][ stop_event =>
          /\ request_counter' = request_counter
          /\ \A w \in Workers : pc'[w] = "inflight" => pc[w] = "inflight" ]_vars

\* C4 amended: once the signal has been raised no worker passes the test at the
\* top of the loop; a worker obtains an id after the signal only if it was past
\* that test when the signal was raised, and then only once (the id it held
\* before, if any, was issued before the signal).
C4_NoIterationEnteredAfterSignal ==
    [][ stop_event =>
          \A w \in Workers :
              /\ pc[w] = "check" => pc'[w] \in { "check", "done" }
              /\ req_id'[w] # req_id[w] =>
                    /\ pc[w] = "draw"
                    /\ req_id[w] < sig_counter
                    /\ req_id'[w] >= sig_counter ]_vars

\* A request whose id was issued after the signal is in the collection.
C4_Witness ==
    /\ stop_event
    /\ \E i \in 1 .. Len(results) : results[i].request_id >= sig_counter
    /\ \E w \in Workers : pc[w] = "done"

\* C5: the aggregator observes a stable, complete snapshot: from the moment
\* main() is past the join (end_time, compute_metrics) every worker has
\* returned, so none holds an id whose outcome is missing, none draws or
\* appends, and the report counts the whole collection.
C5_AggregationAfterJoin ==
    /\ Joined => \A w \in Workers : pc[w] = "done"
    /\ Joined => Pending = {} /\ Len(results) = request_counter
    /\ mainpc = "done" =>
          /\ metrics.total_requests = Len(results)
          /\ metrics.successful =
                Cardinality({ i \in 1 .. Len(results) : results[i].error = "" })

\* end_time is about to be taken with two outcomes in the collection, one of
\* them completed after the signal.
C5_Witness ==
    /\ mainpc = "end"
    /\ Len(results) = 2
    /\ \E i \in 1 .. Len(results) :
          results[i].start_time + results[i].total_time > sig_time

\* The report of compute_metrics is the one of this run.
ReportComputed ==
    /\ metrics.total_requests = Len(results)
    /\ metrics.duration_actual = end_time - start_time

\* C6: drain terminates: with every thread scheduled fairly and every request
\* reaching a terminal outcome, once the stop signal is raised every worker
\* eventually leaves its loop and main() eventually has end_time set and the
\* report computed.
C6_DrainTerminates ==
    stop_event ~>
        /\ mainpc = "done"
        /\ \A w \in Workers : pc[w] = "done"
        /\ end_time >= sig_time
        /\ ReportComputed

\* The run returned after a drain in which a request was in flight at the
\* signal and another was issued after it.
C6_Witness ==
    /\ mainpc = "done"
    /\ sig_inflight # {}
    /\ request_counter > sig_counter
    /\ ReportComputed

\* C7: the stop signal is not raised before the requested duration has elapsed
\* since start_time, end_time is taken after the signal, and so duration_actual
\* = end_time - start_time is at least the requested duration.
C7_DurationAtLeastRequested ==
    /\ stop_event => sig_time - start_time >= duration
    /\ mainpc \in { "aggregate", "done" } =>
          /\ end_time >= sig_time
          /\ end_time - start_time >= duration
    /\ mainpc = "done" =>
          /\ metrics.duration_actual = end_time - start_time
          /\ metrics.duration_actual >= duration

\* A run of requested duration 1 whose actual duration is longer.
C7_Witness ==
    /\ mainpc = "done"
    /\ duration = 1
    /\ metrics.duration_actual > duration

\* The largest total_time among the outcomes of the requests `ids`, 0 if none.
MaxTotalTime(ids) ==
    LET ts == { results[i].total_time :
                  i \in { j \in 1 .. Len(results) : results[j].request_id \in ids } }
    IN IF ts = {} THEN 0 ELSE CHOOSE t \in ts : \A u \in ts : u <= t

\* The instant at which the request of outcome r reached its terminal outcome.
CompletedAt(r) == r.start_time + r.total_time

C9_FailureRecordedWithError ==
    /\ \A w \in Workers :
          (pc[w] = "append" /\ met_failure[w]) => result[w].error # ""
    /\ \A i \in 1 .. Len(results) :
          results[i].status_code # SuccessCode => results[i].error # ""
    /\ \A i, j \in 1 .. Len(results) :
          i # j => results[i].request_id # results[j].request_id

\* The lines after the first termination sentinel removed.
RECURSIVE BeforeSentinel(_)
BeforeSentinel(lines) ==
    IF lines = << >> THEN << >>
    ELSE IF ~Head(lines).empty /\ Head(lines).data /\ Head(lines).payload = "done"
    THEN << >>
    ELSE << Head(lines) >> \o BeforeSentinel(Tail(lines))

\* A data line whose payload is a JSON object whose choices is a non-empty list
\* of objects, the first with a non-empty text.
ValidToken(line) ==
    /\ ~line.empty /\ line.data /\ line.payload = "json"
    /\ line.json.isdict /\ line.json.haschoices
    /\ line.json.choices.kind = "list" /\ line.json.choices.size > 0
    /\ line.json.choices.first.isdict
    /\ line.json.choices.first.text # ""

\* C10: in a stream received after a 200 status that ends without a transport
\* failure, a malformed payload never sets the error and never counts, and the
\* valid fragments are counted whatever malformed payloads precede them.
C10_MalformedPayloadSkipped ==
    ( /\ ex_pc = "returned"
      /\ ex_resp.pre = NoExc
      /\ ex_resp.status = SuccessCode
      /\ ex_resp.tail = NoExc ) =>
        /\ ex_st.result.error = ""
        /\ ex_st.result.tokens_received =
              Len(SelectSeq(BeforeSentinel(ex_resp.lines), ValidToken))

\* C11: a request answered with a status other than 200 returns without
\* reading a line of the body, with error "HTTP <status>", that status as
\* status_code, no token, no time to first token, stream_completed false and
\* an empty finish_reason.
C11_NonSuccessStatusReturnsAtOnce ==
    ( /\ ex_pc \in { "finish", "returned" }
      /\ ex_resp.pre = NoExc
      /\ ex_resp.status # SuccessCode ) =>
        /\ ex_pos = 0
        /\ ex_st.result.error = HttpError(ex_resp.status)
        /\ ex_st.result.status_code = ex_resp.status
        /\ ex_st.result.tokens_received = 0
        /\ ex_st.result.ttft = 0
        /\ ex_st.result.stream_completed = FALSE
        /\ ex_st.result.finish_reason = ""

\* A 503 whose body holds a token and the sentinel has returned as "HTTP 503".
C11_Witness ==
    /\ ex_pc = "returned"
    /\ ex_resp.pre = NoExc
    /\ ex_resp.status = 503
    /\ Len(ex_resp.lines) = 2
    /\ ex_st.result.error = "HTTP 503"

\* C12: at every point of send_streaming_request, the return included, a
\* positive time to first token comes with at least one token received.
C12_TtftImpliesToken ==
    ex_st.result.ttft > 0 => ex_st.result.tokens_received >= 1

\* In the middle of the parsing loop a first token has been timed, after a
\* payload without text that was read at a later instant than the start.
C12_Witness ==
    /\ ex_pc = "lines"
    /\ ex_pos = 2
    /\ ex_resp.lines[1] = EmptyTextLine
    /\ ex_st.result.ttft > 0
    /\ ex_st.result.tokens_received = 1

\* The request attempted normal streaming: a 200 status was received and the
\* loop over the body lines was entered.
AttemptedStreaming == ex_resp.pre = NoExc /\ ex_resp.status = SuccessCode

\* C13: for every returned outcome exactly one holds: its error is non-empty,
\* or the request attempted normal streaming.
C13_ErrorXorStreaming ==
    ex_pc = "returned" => ((ex_st.result.error # "") # AttemptedStreaming)

\* C13, amended: an outcome that received a status has a non-empty error or
\* attempted normal streaming, and may have both; status_code is 200 exactly
\* when streaming was attempted; an outcome without status did not stream and
\* its error is the class or the text of the exception raised by the post.
C13_ErrorOrStreaming ==
    ex_pc = "returned" =>
        /\ ex_resp.pre = NoExc => (ex_st.result.error # "" \/ AttemptedStreaming)
        /\ (ex_st.result.status_code = SuccessCode) = AttemptedStreaming
        /\ ex_resp.pre # NoExc =>
              /\ ex_st.result.status_code = 0
              /\ ex_st.result.error = ErrorOf(ex_resp.pre)
              /\ ex_pos = 0

\* Both hold: a stream cut after a counted token returns with an error.
C13_Witness ==
    /\ ex_pc = "returned"
    /\ AttemptedStreaming
    /\ ex_st.result.error = "stream_interrupted"
    /\ ex_st.result.tokens_received >= 1

\* Counts taken from the collection itself.
FailedCount == Cardinality({ i \in 1 .. Len(results) : results[i].error # "" })
CompletedCount == Cardinality({ i \in 1 .. Len(results) : results[i].stream_completed })
TokenCount == Sum([ i \in 1 .. Len(results) |-> results[i].tokens_received ])

\* What the report satisfies whatever the rates are: the counts add up, the
\* rates lie in [0, 1] (0 .. 10000 in 1/10000), every rate field is 0 for the
\* empty collection, tokens_per_sec is 0 for a non-positive duration.
CountsAndZeroCases ==
    /\ metrics.total_requests = Len(results)
    /\ metrics.failed = FailedCount
    /\ metrics.successful + metrics.failed = metrics.total_requests
    /\ metrics.error_rate \in 0 .. 10000
    /\ metrics.stream_completion_rate \in 0 .. 10000
    /\ metrics.total_requests = 0 =>
          /\ metrics.error_rate = 0
          /\ metrics.stream_completion_rate = 0
          /\ metrics.tokens_per_sec = 0
          /\ metrics.ttft_p50 = 0
          /\ metrics.ttft_p95 = 0
    /\ end_time - start_time <= 0 => metrics.tokens_per_sec = 0

\* C14: the counts add up, error_rate is failed / total_requests and
\* stream_completion_rate is completed / total_requests, both in [0, 1], every
\* rate field is 0 for the empty collection and tokens_per_sec is 0 for a
\* non-positive duration.
C14_ExactRates ==
    mainpc = "done" =>
        /\ CountsAndZeroCases
        /\ metrics.total_requests > 0 =>
              /\ metrics.error_rate * metrics.total_requests = 10000 * FailedCount
              /\ metrics.stream_completion_rate * metrics.total_requests
                    = 10000 * CompletedCount

\* C14, amended: as C14 with the two rates equal to the quotients rounded to
\* four decimals, that is within half of 1/10000 of them.
C14_RoundedRates ==
    mainpc = "done" =>
        /\ CountsAndZeroCases
        /\ metrics.total_requests > 0 =>
              LET n == metrics.total_requests
                  e == metrics.error_rate * n - 10000 * FailedCount
                  s == metrics.stream_completion_rate * n - 10000 * CompletedCount
              IN /\ 2 * e <= n /\ 2 * e >= -n
                 /\ 2 * s <= n /\ 2 * s >= -n

\* One failure in three requests is reported as 0.3333, over a non-positive
\* duration in which tokens were received.
C14_Witness ==
    /\ mainpc = "done"
    /\ metrics.total_requests = 3
    /\ metrics.failed = 1
    /\ metrics.error_rate = 3333
    /\ end_time <= start_time
    /\ TokenCount > 0
    /\ metrics.tokens_per_sec = 0

\* C15: percentile(seq, p), here times 100, is the reference interpolation
\* seq[f] + d * (seq[c] - seq[f]) with k = (M - 1) * p / 100, f = floor(k),
\* c = min(f + 1, M - 1), d = k - f, both indices inside the sequence; it is 0
\* for the empty sequence, x for [x] and 25 for ([10, 20, 30, 40], 50).
C15_PercentileIsReference ==
    pct_pc = "returned" =>
        LET M == Len(pct_values)
            K == (M - 1) * pct_p
        IN /\ M = 0 => pct_out = 0
           /\ M = 1 => pct_out = 100 * pct_values[1]
           /\ M > 0 =>
                \E f \in 0 .. M - 1 :
                    /\ 100 * f <= K
                    /\ K < 100 * (f + 1)
                    /\ \E c \in 0 .. M - 1 :
                          /\ c <= f + 1 /\ c <= M - 1
                          /\ c = f + 1 \/ c = M - 1
                          /\ pct_out = 100 * pct_values[f + 1]
                                + (K - 100 * f) * (pct_values[c + 1] - pct_values[f + 1])
           /\ (pct_values = << 10, 20, 30, 40 >> /\ pct_p = 50) => pct_out = 2500

\* percentile([10, 20, 30, 40], 50) has returned 25.
C15_Witness ==
    /\ pct_pc = "returned"
    /\ pct_values = << 10, 20, 30, 40 >>
    /\ pct_p = 50
    /\ pct_out = 2500

\* C16: at every point of write_json_output, a failure part-way included, the
\* output path holds, and a reader of it has read, the previous content (or no
\* file) or the complete new report; after a failure the output path holds the
\* previous content, after the return the complete new report.
C16_ReportWrittenAtomically ==
    wr_pc # "off" =>
        /\ files[OutPath] \in { prev_report, NewReport }
        /\ rd_seen \in { prev_report, NewReport }
        /\ wr_pc = "raised" => files[OutPath] = prev_report
        /\ wr_pc \in { "print", "done" } => files[OutPath] = NewReport

\* The write failed with a part of the new report in the temporary file; the
\* previous report is still at the output path.
C16_Witness ==
    /\ wr_pc = "raised"
    /\ files[TmpPath(OutPath)].report = "new"
    /\ files[TmpPath(OutPath)].written \in 1 .. ReportChunks - 1
    /\ prev_report = OldReport
    /\ files[OutPath] = OldReport
    /\ rd_seen = OldReport

\* A data line whose payload is a JSON object whose choices is a non-empty list
\* of objects, the first with a completion reason that is not null.
HasFinish(line) ==
    /\ ~line.empty /\ line.data /\ line.payload = "json"
    /\ line.json.isdict /\ line.json.haschoices
    /\ line.json.choices.kind = "list" /\ line.json.choices.size > 0
    /\ line.json.choices.first.isdict
    /\ line.json.choices.first.finish # None

\* The sentinel is among the lines.
HasSentinel(lines) == Len(BeforeSentinel(lines)) < Len(lines)

\* C17: after a 200 status, whatever the lines received, tokens_received is
\* the number of data lines with a non-empty token fragment before the first
\* sentinel, and stream_completed is true exactly when the sentinel or a
\* completion reason that is not null is among the lines up to it.
C17_TokensBeforeSentinelCounted ==
    ( /\ ex_pc = "returned"
      /\ ex_resp.pre = NoExc
      /\ ex_resp.status = SuccessCode ) =>
        LET read == BeforeSentinel(ex_resp.lines) IN
        /\ ex_st.result.tokens_received = Len(SelectSeq(read, ValidToken))
        /\ ex_st.result.stream_completed =
              ( \/ HasSentinel(ex_resp.lines)
                \/ \E i \in 1 .. Len(read) : HasFinish(read[i]) )

\* The failures of the transport: the exceptions of requests that the first
\* three except clauses classify.
TransportFailure(e) == IsConnectionError(e) \/ IsChunkedEncodingError(e) \/ IsTimeout(e)

\* What an outcome has accumulated.
Counts(r) == << r.status_code, r.tokens_received, r.ttft, r.stream_completed, r.finish_reason >>

\* C18: a transport failure while the body is read after a 200 status changes
\* none of status_code (200), tokens_received, ttft, stream_completed and
\* finish_reason, neither when it is raised nor when it is caught, and the
\* outcome returned has a non-empty error; a transport failure before any
\* status returns status_code 0, no token and no time to first token.
C18_TransportFailureKeepsCounts ==
    [][ /\ ( /\ ex_pc = "lines"
             /\ ex_st'.ctl = "raise"
             /\ TransportFailure(ex_st'.exc) ) =>
                /\ Counts(ex_st'.result) = Counts(ex_st.result)
                /\ ex_st.result.status_code = SuccessCode
        /\ ( /\ ex_pc = "finish"
             /\ ex_pc' = "returned"
             /\ ex_st.ctl = "raise"
             /\ TransportFailure(ex_st.exc) ) =>
                /\ Counts(ex_st'.result) = Counts(ex_st.result)
                /\ ex_st'.result.error # ""
                /\ ex_resp.pre = NoExc => ex_st'.result.status_code = SuccessCode
                /\ ex_resp.pre # NoExc =>
                      /\ ex_st'.result.status_code = 0
                      /\ ex_st'.result.tokens_received = 0
                      /\ ex_st'.result.ttft = 0
      ]_vars

\* A stream cut after a timed token that carried a completion reason has
\* returned with all of them and the error of the interruption.
C18_Witness ==
    /\ ex_pc = "returned"
    /\ ex_resp.pre = NoExc
    /\ ex_st.ctl = "raise"
    /\ TransportFailure(ex_st.exc)
    /\ ex_st.result.status_code = SuccessCode
    /\ ex_st.result.tokens_received >= 1
    /\ ex_st.result.ttft > 0
    /\ ex_st.result.stream_completed
    /\ ex_st.result.finish_reason # ""
    /\ ex_st.result.error = "stream_interrupted"

\* The ids drawn since stop_event was set.
DrawnAfterSignal == { id \in 0 .. request_counter - 1 : stop_event /\ id >= sig_counter }

\* C19: a worker that draws an id after the signal had drawn its previous id,
\* if any, before the signal; so every id drawn after the signal is the last
\* id of a worker of its own and such ids are at most NumWorkers; and a worker
\* calls the executor only when the outcome of its previous request is in the
\* collection, so it has at most one request in flight.
C19_OneLateRequestPerWorker ==
    /\ [](/\ \A id \in DrawnAfterSignal : \E w \in Workers : req_id[w] = id
          /\ Cardinality(DrawnAfterSignal) <= NumWorkers
          /\ \A w \in Workers : pc[w] = "inflight" => result[w].request_id = req_id[w])
    /\ [][ \A w \in Workers :
             /\ (stop_event /\ req_id'[w] # req_id[w]) => req_id[w] < sig_counter
             /\ (pc[w] = "call" /\ pc'[w] = "inflight") =>
                   /\ result[w] = NoResult \/ result[w].request_id \in ResultIds
                   /\ req_id[w] \notin ResultIds
       ]_vars

\* Every worker drew its only id after the signal, and the run is over.
C19_Witness ==
    /\ stop_event
    /\ Cardinality(DrawnAfterSignal) = NumWorkers
    /\ \A w \in Workers : pc[w] = "done" /\ req_id[w] >= sig_counter
    /\ Len(results) = NumWorkers

\* The ids assigned so far: those the workers are working on and those of the
\* collection.
AssignedIds == { req_id[w] : w \in Pending } \cup ResultIds

\* C20: the ids are assigned in increasing order from 0 without gap: the
\* counter never decreases, the id a worker draws is the number of ids drawn
\* before it, the ids assigned so far are 0 .. request_counter - 1, and after
\* the drain the ids of the collection are 0 .. total_requests - 1.
C20_IdsAssignedInOrderWithoutGap ==
    /\ [](/\ AssignedIds = 0 .. request_counter - 1
          /\ Joined => ResultIds = 0 .. Len(results) - 1
          /\ mainpc = "done" => ResultIds = 0 .. metrics.total_requests - 1)
    /\ [][ /\ request_counter' >= request_counter
           /\ \A w \in Workers :
                 req_id'[w] # req_id[w] =>
                    /\ req_id'[w] = request_counter
                    /\ request_counter' = request_counter + 1
                    /\ \A v \in Workers : req_id[v] < req_id'[w]
       ]_vars

\* The run is over and the outcome of a later id precedes, in the collection,
\* the outcome of an earlier id.
C20_Witness ==
    /\ mainpc = "done"
    /\ metrics.total_requests = Len(results)
    /\ ResultIds = 0 .. metrics.total_requests - 1
    /\ \E i, j \in 1 .. Len(results) :
          i < j /\ results[i].request_id > results[j].request_id

====
